---- MODULE Spec2Model ----
(***************************************************************************)
(* Model of the scraping scripts of Task-2:                                *)
(*   ecommerce_scraper/noon_laptop_scraper.py   (browser, paginated)       *)
(*   ecommerce_scraper/simple_noon_scraper.py   (HTTP, paginated)          *)
(*   ecommerce_scraper/rejected_noon_scraper.py (HTTP, paginated, no CSV)  *)
(*   real_estate_scraper/scraper_v1.py, scraper_v2.py (infinite scroll)    *)
(*                                                                         *)
(* and of the upload handler of                                            *)
(*   erp_project/automated_document_processing/stream_invoice.py           *)
(*                                                                         *)
(* A Python str is a sequence of tokens (chunks of characters); None and   *)
(* a missing element are the empty tuple, a present value x is <<x>>.      *)
(***************************************************************************)
EXTENDS Integers, Sequences, FiniteSets, TLC

VARIABLES
    script,          \* which script runs
    pc,              \* position of the script
    current_page,    \* loop variable of the page loop (page / current_page)
    site,            \* what the site answered for each page fetched so far
    branch,          \* the branch the page loop took for each page
    log,             \* calls issued so far, in order
    browser,         \* "none", "open" or "closed"
    titles, prices, ratings, product_links, image_links,
    scroll_count,    \* parameter of scrape_nawy_properties
    scroll_i,        \* scroll iterations finished
    loaded,          \* property cards currently in the rendered DOM
    prev_loaded,     \* property cards in the DOM before the last scroll
    location_list, name_list, description_list, area_list, bed_list,
    bath_list, price_list,
    df,              \* the DataFrame, once created
    csv_file,        \* the rows written to the CSV file, once written
    parent_dir,      \* "unchecked", or "ensured" once os.makedirs has run
    stdout,          \* the outcome messages printed so far
    product,         \* container handed to the per-product extraction alone
    property,        \* property card handed to the extraction alone
    collections,     \* stream_invoice: the documents of each collection
    session          \* stream_invoice: the script run of each browser session

noonLists == <<titles, prices, ratings, product_links, image_links>>
nawyLists == <<location_list, name_list, description_list, area_list,
               bed_list, bath_list, price_list>>
vars == <<script, pc, current_page, site, branch, log, browser,
          titles, prices, ratings, product_links, image_links,
          scroll_count, scroll_i, loaded, prev_loaded,
          location_list, name_list, description_list, area_list, bed_list,
          bath_list, price_list, df, csv_file, parent_dir, stdout, product,
          property, collections, session>>

-----------------------------------------------------------------------------
(* Bounds of the model *)

MaxContainers == 2      \* containers on one page
MaxRows == 4            \* containers served over one run
MaxBlocks == 2          \* feature sub-blocks of one property card
MaxScrollCount == 3     \* largest scroll_count passed to scraper_v2
MaxRuns == 2            \* clicks on "Extract Information", all sessions together

-----------------------------------------------------------------------------
(* Python values *)

None == <<>>
Some(x) == <<x>>
Val(o) == o[1]

\* str truthiness: None and "" are falsy
Truthy(o) == o # None /\ Val(o) # <<>>

IsSpace(c) == c \in {" ", "\n"}

RECURSIVE LStrip(_)
LStrip(s) == IF s # <<>> /\ IsSpace(Head(s)) THEN LStrip(Tail(s)) ELSE s

RECURSIVE RStrip(_)
RStrip(s) ==
    IF s # <<>> /\ IsSpace(s[Len(s)]) THEN RStrip(SubSeq(s, 1, Len(s) - 1)) ELSE s

\* str.strip()
Strip(s) == RStrip(LStrip(s))

LowerToken(c) ==
    CASE c = "M2" -> "m2"
      [] c = "Beds" -> "beds"
      [] c = "BATHS" -> "baths"
      [] c = "Invoice" -> "invoice"
      [] c = "Purchase" -> "purchase"
      [] c = "Approval" -> "approval"
      [] OTHER -> c

\* str.lower()
Lower(s) == [i \in 1..Len(s) |-> LowerToken(s[i])]

\* A tag's content is the sequence of its text nodes.
\* Tag.text: the text nodes joined
RECURSIVE Text(_)
Text(tag) == IF tag = <<>> THEN <<>> ELSE Head(tag) \o Text(Tail(tag))

\* Tag.get_text(strip=True): every text node stripped, the empty ones dropped,
\* the rest joined
RECURSIVE GetTextStrip(_)
GetTextStrip(tag) ==
    IF tag = <<>> THEN <<>> ELSE Strip(Head(tag)) \o GetTextStrip(Tail(tag))

StartsWith(s, p) == Len(s) >= Len(p) /\ SubSeq(s, 1, Len(p)) = p

-----------------------------------------------------------------------------
(* Schema constants *)

NA == <<"N/A">>                       \* sentinel of the listing schema
Empty == <<>>                         \* sentinel "" of the property schema
Origin == <<"https://www.noon.com">>

-----------------------------------------------------------------------------
(* The scripts *)

BrowserPaginated == {"noon_laptop"}
HttpPaginated == {"simple_noon", "rejected_noon"}
Paginated == BrowserPaginated \cup HttpPaginated
InfiniteScroll == {"scraper_v1", "scraper_v2"}
Scripts == Paginated \cup InfiniteScroll

FirstPage == 1          \* range(1, 6)
LastPage == 5
V1ScrollCount == 100    \* for _ in range(100)
Pages == FirstPage..LastPage

-----------------------------------------------------------------------------
(* Listing schema: per-product extraction *)

EmptyListing ==
    [titles |-> <<>>, prices |-> <<>>, ratings |-> <<>>,
     product_links |-> <<>>, image_links |-> <<>>]

\* noon_laptop: title_tag.get_text(strip=True) if title_tag else "N/A"
FieldLaptop(tag) == IF tag # None THEN GetTextStrip(Val(tag)) ELSE NA

\* simple_noon, rejected_noon: title_tag.text.strip() if title_tag else "N/A"
FieldSimple(tag) == IF tag # None THEN Strip(Text(Val(tag))) ELSE NA

\* LinkLaptop without the origin prefix
LinkLaptopNoOrigin(p) ==
    IF p.link # None /\ Val(p.link).href # None
    THEN Val(Val(p.link).href)
    ELSE NA

\* noon_laptop: the link is a descendant of the container
LinkLaptop(p) ==
    IF p.link # None /\ Val(p.link).href # None
    THEN Origin \o Val(Val(p.link).href)
    ELSE NA

\* simple_noon, rejected_noon: the container is the link element itself
LinkSimple(p) ==
    LET href == Val(p.link).href
    IN  IF Truthy(href) THEN Origin \o Val(href) ELSE NA

\* noon_laptop: img_tag.get('src') or img_tag.get('data-src', 'N/A')
ImageLaptop(p) ==
    IF p.img # None
    THEN IF Truthy(Val(p.img).src)
         THEN Val(Val(p.img).src)
         ELSE IF Val(p.img).data_src # None THEN Val(Val(p.img).data_src) ELSE NA
    ELSE NA

\* simple_noon, rejected_noon: img_tag['src'] raises KeyError without a src
ImageSimpleRaises(p) == p.img # None /\ Val(p.img).src = None

ImageSimple(p) == IF p.img # None THEN Val(Val(p.img).src) ELSE NA

\* ListAppend that skips a value the list already holds
ListAppendUnique(list, x) ==
    IF \E i \in 1..Len(list) : list[i] = x THEN list ELSE Append(list, x)

\* list.append(x)
ListAppend(list, x) == Append(list, x)

\* One iteration of "for product in products": the appends made, and whether
\* an exception left the iteration.
ExtractLaptopProduct(cols, p) ==
    [cols |-> [titles |-> ListAppend(cols.titles, FieldLaptop(p.title)),
               prices |-> ListAppend(cols.prices, FieldLaptop(p.price)),
               ratings |-> ListAppend(cols.ratings, FieldLaptop(p.rating_span)),
               product_links |-> ListAppend(cols.product_links, LinkLaptop(p)),
               image_links |-> ListAppend(cols.image_links, ImageLaptop(p))],
     raised |-> FALSE]

ExtractSimpleProduct(cols, p) ==
    LET four == [titles |-> ListAppend(cols.titles, FieldSimple(p.title)),
                 prices |-> ListAppend(cols.prices, FieldSimple(p.price)),
                 ratings |-> ListAppend(cols.ratings, FieldSimple(p.rating_div)),
                 product_links |-> ListAppend(cols.product_links, LinkSimple(p)),
                 image_links |-> cols.image_links]
    IN  IF ImageSimpleRaises(p)
        THEN [cols |-> four, raised |-> TRUE]
        ELSE [cols |-> [four EXCEPT !.image_links = ListAppend(@, ImageSimple(p))],
              raised |-> FALSE]

ExtractProduct(s, cols, p) ==
    IF s \in BrowserPaginated
    THEN ExtractLaptopProduct(cols, p)
    ELSE ExtractSimpleProduct(cols, p)

\* "for product in products": stops at the first exception
RECURSIVE ExtractProducts(_, _, _)
ExtractProducts(s, cols, products) ==
    IF products = <<>>
    THEN [cols |-> cols, raised |-> FALSE]
    ELSE LET r == ExtractProduct(s, cols, Head(products))
         IN  IF r.raised THEN r ELSE ExtractProducts(s, r.cols, Tail(products))

\* The containers the script's selector finds in a page: noon_laptop takes
\* the div wrappers, the HTTP scripts take the link elements.
FindProducts(s, dom) ==
    IF s \in BrowserPaginated
    THEN dom
    ELSE SelectSeq(dom, LAMBDA b : b.link # None)

-----------------------------------------------------------------------------
(* Property schema: per-property extraction *)

EmptyProperty ==
    [location_list |-> <<>>, name_list |-> <<>>, description_list |-> <<>>,
     area_list |-> <<>>, bed_list |-> <<>>, bath_list |-> <<>>,
     price_list |-> <<>>]

\* location.text.strip() if location else ""
FieldProperty(tag) == IF tag # None THEN Strip(Text(Val(tag))) ELSE Empty

\* FeatureBlock of a loop that keeps the first value found for a label
FeatureBlockFirstWins(vals, block) ==
    IF block.label # None /\ block.value # None
    THEN LET label_text == Lower(Strip(Text(Val(block.label))))
             value_text == Strip(Text(Val(block.value)))
         IN  IF label_text = <<"m2">> /\ vals.area_val = Empty
             THEN [vals EXCEPT !.area_val = value_text]
             ELSE IF label_text = <<"beds">> /\ vals.bed_val = Empty
             THEN [vals EXCEPT !.bed_val = value_text]
             ELSE IF label_text = <<"baths">> /\ vals.bath_val = Empty
             THEN [vals EXCEPT !.bath_val = value_text]
             ELSE vals
    ELSE vals

\* One iteration of "for block in feature_blocks" on (area_val, bed_val, bath_val)
FeatureBlock(vals, block) ==
    IF block.label # None /\ block.value # None
    THEN LET label_text == Lower(Strip(Text(Val(block.label))))
             value_text == Strip(Text(Val(block.value)))
         IN  IF label_text = <<"m2">> THEN [vals EXCEPT !.area_val = value_text]
             ELSE IF label_text = <<"beds">> THEN [vals EXCEPT !.bed_val = value_text]
             ELSE IF label_text = <<"baths">> THEN [vals EXCEPT !.bath_val = value_text]
             ELSE vals
    ELSE vals

RECURSIVE FeatureBlocks(_, _)
FeatureBlocks(vals, blocks) ==
    IF blocks = <<>> THEN vals
    ELSE FeatureBlocks(FeatureBlock(vals, Head(blocks)), Tail(blocks))

\* One iteration of "for property in Properties"
ExtractProperty(cols, q) ==
    LET vals == FeatureBlocks([area_val |-> Empty, bed_val |-> Empty,
                               bath_val |-> Empty], q.blocks)
    IN  [location_list |-> ListAppend(cols.location_list, FieldProperty(q.location)),
         name_list |-> ListAppend(cols.name_list, FieldProperty(q.name)),
         description_list |-> ListAppend(cols.description_list, FieldProperty(q.description)),
         price_list |-> ListAppend(cols.price_list, FieldProperty(q.price)),
         area_list |-> ListAppend(cols.area_list, vals.area_val),
         bed_list |-> ListAppend(cols.bed_list, vals.bed_val),
         bath_list |-> ListAppend(cols.bath_list, vals.bath_val)]

RECURSIVE ExtractProperties(_, _)
ExtractProperties(cols, props) ==
    IF props = <<>> THEN cols
    ELSE ExtractProperties(ExtractProperty(cols, Head(props)), Tail(props))

-----------------------------------------------------------------------------
(* What the sites may serve *)

OptionOf(S) == {None} \cup {Some(x) : x \in S}

TitleTags == { << <<"Laptop">> >>,
               << <<" ", "Gaming", " ">>, <<"Laptop", "\n">> >> }
PriceTags == { << <<"1000">> >> }
RatingTags == { << <<"4.5">> >> }
Hrefs == { <<>>, <<"/", "p/1">> }
Urls == { <<>>, <<"https://f.nooncdn.com/1.jpg">> }
LazyUrls == { <<>>, <<"https://f.nooncdn.com/lazy.jpg">> }

LinkTags == [href : OptionOf(Hrefs)]
ImgTags == [src : OptionOf(Urls), data_src : OptionOf(LazyUrls)]

\* every shape of one product box
AllProducts ==
    [title : OptionOf(TitleTags), price : OptionOf(PriceTags),
     rating_span : OptionOf(RatingTags), rating_div : OptionOf(RatingTags),
     link : OptionOf(LinkTags), img : OptionOf(ImgTags)]

\* the product boxes the page loop is run on
FullBox ==
    [title |-> Some(<< <<"Laptop">> >>), price |-> Some(<< <<"1000">> >>),
     rating_span |-> Some(<< <<"4.5">> >>), rating_div |-> Some(<< <<"4.5">> >>),
     link |-> Some([href |-> Some(<<"/", "p/1">>)]),
     img |-> Some([src |-> Some(<<"https://f.nooncdn.com/1.jpg">>), data_src |-> None])]

LazyBox ==
    [title |-> None, price |-> Some(<< <<"1000">> >>),
     rating_span |-> None, rating_div |-> None,
     link |-> Some([href |-> Some(<<"/", "p/1">>)]),
     img |-> Some([src |-> None,
                   data_src |-> Some(<<"https://f.nooncdn.com/lazy.jpg">>)])]

PageBoxes == {FullBox, LazyBox}

SeqsUpTo(S, n) == UNION {[1..k -> S] : k \in 0..n}

PageDoms == SeqsUpTo(PageBoxes, MaxContainers)

LabelTags == { << <<"m2">> >>, << <<" ", "M2", "\n">> >>, << <<"Beds">> >>,
               << <<"BATHS">> >>, << <<"garage">> >> }
ValueTags == { << <<"120">> >>, << <<" ", "3", " ">> >> }
FeatureBlockTags == [label : OptionOf(LabelTags), value : OptionOf(ValueTags)]

\* every shape of one property card
AllProperties ==
    [location : OptionOf({<< <<" ", "Cairo">> >>}),
     name : OptionOf({<< <<"Villa">> >>}),
     description : OptionOf({<< <<"Nice", "\n">> >>}),
     price : OptionOf({<< <<"5,000,000">> >>}),
     blocks : SeqsUpTo(FeatureBlockTags, MaxBlocks)]

\* the property cards the scroll scripts are run on
FullCard ==
    [location |-> Some(<< <<" ", "Cairo">> >>), name |-> Some(<< <<"Villa">> >>),
     description |-> Some(<< <<"Nice", "\n">> >>),
     price |-> Some(<< <<"5,000,000">> >>),
     blocks |-> << [label |-> Some(<< <<" ", "M2", "\n">> >>),
                    value |-> Some(<< <<"120">> >>)],
                   [label |-> Some(<< <<"Beds">> >>),
                    value |-> Some(<< <<" ", "3", " ">> >>)] >>]

BareCard ==
    [location |-> None, name |-> Some(<< <<"Villa">> >>), description |-> None,
     price |-> None,
     blocks |-> << [label |-> Some(<< <<"garage">> >>),
                    value |-> Some(<< <<"120">> >>)] >>]

PageCards == {FullCard, BareCard}

NoProduct == FullBox
NoProperty == BareCard

-----------------------------------------------------------------------------
(* stream_invoice.py: files, model answers, documents *)

\* the browser sessions of the Streamlit app, each running the script on its
\* own thread against the same database
Sessions == {"s1", "s2"}

\* the keys of the collections dict
DocTypes == {"invoice", "purchase_order", "approval"}

NoDocuments == [t \in DocTypes |-> <<>>]

\* an uploaded file: its name and what a text extraction can read in it;
\* Unreadable stands for a file pdfplumber or PIL cannot open
Unreadable == <<"%PDF-broken">>
Uploads ==
    {[name |-> "a.pdf", body |-> <<" ", "total", "100", "\n">>],
     [name |-> "b.png", body |-> <<"total", "100">>],
     [name |-> "a.pdf", body |-> <<"PO", "7">>],
     [name |-> "c.png", body |-> <<" ", "\n">>],
     [name |-> "d.pdf", body |-> Unreadable]}

\* an answer of llm.invoke: an exception, or a response with its content
LlmRaises == [raised |-> TRUE, content |-> <<>>]
LlmResponse(c) == [raised |-> FALSE, content |-> c]

\* answers to the classification prompt
ClassificationContents ==
    {<<"invoice">>,
     <<" ", "Purchase", " ", "Invoice", "\n">>,
     <<"purchase", "_", "order">>,
     <<"Approval", "\n">>,
     <<"receipt">>}
ClassificationAnswers ==
    {LlmRaises} \cup {LlmResponse(c) : c \in ClassificationContents}

\* the Markdown code fences, three backquotes with and without "json"
FenceJson == "[fence]json"
Fence == "[fence]"

\* answers to the extraction prompt
ExtractionContents ==
    {<<FenceJson, "\n", "{}", "\n", Fence>>, <<"{}">>, <<"Sorry", ",", "{}">>}
ExtractionAnswers ==
    {LlmRaises} \cup {LlmResponse(c) : c \in ExtractionContents}

\* "x in s" for a keyword x and a str s
Contains(s, x) == \E i \in 1..Len(s) : s[i] = x

\* str.replace(x, "") for a token x
Remove(s, x) == SelectSeq(s, LAMBDA c : c # x)

\* extract_text_from_file: the stripped text, or None after an exception
ExtractTextFromFile(uploaded_file) ==
    IF uploaded_file.body = Unreadable THEN None
    ELSE Some(Strip(uploaded_file.body))

\* detect_document_type with a fallback that hands the model's word on
DetectDocumentTypeNoFallback(response) ==
    IF response.raised THEN "invoice"
    ELSE LET doc_type == Lower(Strip(response.content))
         IN  IF Contains(doc_type, "invoice") THEN "invoice"
             ELSE IF Contains(doc_type, "purchase") \/ Contains(doc_type, "order")
                  THEN "purchase_order"
             ELSE IF Contains(doc_type, "approval") THEN "approval"
             ELSE "other"

\* detect_document_type, given the answer of llm.invoke
DetectDocumentType(response) ==
    IF response.raised THEN "invoice"
    ELSE LET doc_type == Lower(Strip(response.content))
         IN  IF Contains(doc_type, "invoice") THEN "invoice"
             ELSE IF Contains(doc_type, "purchase") \/ Contains(doc_type, "order")
                  THEN "purchase_order"
             ELSE IF Contains(doc_type, "approval") THEN "approval"
             ELSE "invoice"

\* response.content.strip().replace(FenceJson, "").replace(Fence, "")
Unfence(content) == Remove(Remove(Strip(content), FenceJson), Fence)

\* json.loads: the parsed value, or None for JSONDecodeError
JsonLoads(result) == IF Strip(result) = <<"{}">> THEN Some("{}") ELSE None

\* embedding_model.encode(extracted_text).tolist()
Encode(text) == [of |-> text]

\* collection.find_one({"$or": [{"file_name": ..}, {"extracted_text": ..}]})
FindOne(collection, file_name, extracted_text) ==
    LET hits == {i \in 1..Len(collection) :
                    \/ collection[i].file_name = file_name
                    \/ collection[i].extracted_text = extracted_text}
    IN  IF hits = {} THEN None
        ELSE Some(collection[CHOOSE i \in hits : \A j \in hits : i <= j])

\* a session before its first click on "Extract Information"
IdleSession ==
    [pc |-> "idle", runs |-> 0, uploaded_file |-> None,
     extracted_text |-> None, response |-> None, doc_type |-> None,
     json_data |-> None, embedding_vector |-> None, existing_doc |-> None,
     shown |-> <<>>]

-----------------------------------------------------------------------------
(* The runs *)

NotFetched == [kind |-> "pending", dom |-> <<>>]

Call(op, p) == [op |-> op, page |-> p]

InitRun ==
    /\ pc = "start"
    /\ current_page = FirstPage
    /\ site = [p \in Pages |-> NotFetched]
    /\ branch = [p \in Pages |-> "none"]
    /\ log = <<>>
    /\ browser = "none"
    /\ titles = <<>> /\ prices = <<>> /\ ratings = <<>>
    /\ product_links = <<>> /\ image_links = <<>>
    /\ scroll_i = 0 /\ loaded = 0 /\ prev_loaded = 0
    /\ location_list = <<>> /\ name_list = <<>> /\ description_list = <<>>
    /\ area_list = <<>> /\ bed_list = <<>> /\ bath_list = <<>>
    /\ price_list = <<>>
    /\ df = None
    /\ csv_file = None
    /\ stdout = <<>>
    /\ collections = NoDocuments
    /\ session = [s \in Sessions |-> IdleSession]

Init ==
    /\ script \in Scripts
    /\ scroll_count \in IF script = "scraper_v2" THEN 0..MaxScrollCount
                        ELSE IF script = "scraper_v1" THEN {V1ScrollCount}
                        ELSE {0}
    /\ InitRun
    /\ parent_dir = "unchecked"
    /\ product = NoProduct
    /\ property = NoProperty

Listing == [titles |-> titles, prices |-> prices, ratings |-> ratings,
            product_links |-> product_links, image_links |-> image_links]

SetListing(cols) ==
    /\ titles' = cols.titles
    /\ prices' = cols.prices
    /\ ratings' = cols.ratings
    /\ product_links' = cols.product_links
    /\ image_links' = cols.image_links

PropertyLists ==
    [location_list |-> location_list, name_list |-> name_list,
     description_list |-> description_list, area_list |-> area_list,
     bed_list |-> bed_list, bath_list |-> bath_list, price_list |-> price_list]

SetPropertyLists(cols) ==
    /\ location_list' = cols.location_list
    /\ name_list' = cols.name_list
    /\ description_list' = cols.description_list
    /\ area_list' = cols.area_list
    /\ bed_list' = cols.bed_list
    /\ bath_list' = cols.bath_list
    /\ price_list' = cols.price_list

scrollVars == <<scroll_count, scroll_i, loaded, prev_loaded>>
sinkVars == <<df, csv_file, parent_dir>>
docVars == <<collections, session>>
scraperVars == <<script, pc, current_page, site, branch, log, browser, stdout,
                 noonLists, nawyLists, scrollVars, sinkVars, product, property>>
aloneVars == <<product, property, docVars>>

-----------------------------------------------------------------------------
(* The page loop of the paginated scripts *)

\* OnEmpty with "break" in every script
OnEmptyBreak(s) == "break"

\* OnEmpty with "continue" in every script
OnEmptyContinue(s) == "continue"

\* what "if not products" does: noon_laptop continues, the HTTP scripts break
OnEmpty(s) == IF s \in BrowserPaginated THEN "continue" ELSE "break"

\* what an exception inside the loop body does: noon_laptop catches it and
\* continues, the HTTP scripts have no handler
OnError(s) == IF s \in BrowserPaginated THEN "continue" ELSE "abort"

\* where the script goes once the page loop is left
AfterLoop(s) == IF s \in BrowserPaginated THEN "close" ELSE "dataframe"

\* the next value of the loop variable
NextPage(p) == p + 1

\* leave the iteration of page p by "continue", "break", "abort", or by
\* reaching the end of the loop body
Leave(how, p) ==
    CASE how = "abort" ->
            /\ pc' = "crashed"
            /\ current_page' = p
      [] how = "break" ->
            /\ pc' = AfterLoop(script)
            /\ current_page' = p
      [] OTHER ->
            /\ pc' = IF NextPage(p) > LastPage THEN AfterLoop(script) ELSE "page_loop"
            /\ current_page' = NextPage(p)

AtPage(p) == pc = "page_loop" /\ p = current_page /\ p \in Pages

LaunchBrowser ==
    /\ pc = "start"
    /\ script \in BrowserPaginated
    /\ browser' = "open"
    /\ pc' = "page_loop"
    /\ UNCHANGED <<script, current_page, site, branch, log, stdout>>
    /\ UNCHANGED <<noonLists, nawyLists, scrollVars, sinkVars, aloneVars>>

StartLoop ==
    /\ pc = "start"
    /\ script \in HttpPaginated
    /\ pc' = "page_loop"
    /\ UNCHANGED <<script, current_page, site, branch, log, stdout, browser>>
    /\ UNCHANGED <<noonLists, nawyLists, scrollVars, sinkVars, aloneVars>>

\* page.goto raises (timeout, network error)
GotoRaises ==
    /\ script \in BrowserPaginated
    /\ \E p \in Pages :
        /\ AtPage(p)
        /\ log' = log \o <<Call("goto", p)>>
        /\ site' = [site EXCEPT ![p] = [kind |-> "goto_error", dom |-> <<>>]]
        /\ branch' = [branch EXCEPT ![p] = "except"]
        /\ stdout' = Append(stdout, "page_error")
        /\ Leave(OnError(script), p)
    /\ UNCHANGED <<script, browser>>
    /\ UNCHANGED <<noonLists, nawyLists, scrollVars, sinkVars, aloneVars>>

\* no container shows within the wait: page.wait_for_selector raises
WaitForSelectorRaises ==
    /\ script \in BrowserPaginated
    /\ \E p \in Pages :
        /\ AtPage(p)
        /\ log' = log \o <<Call("goto", p), Call("wait_for_selector", p)>>
        /\ site' = [site EXCEPT ![p] = [kind |-> "selector_timeout", dom |-> <<>>]]
        /\ branch' = [branch EXCEPT ![p] = "except"]
        /\ stdout' = Append(stdout, "page_error")
        /\ Leave(OnError(script), p)
    /\ UNCHANGED <<script, browser>>
    /\ UNCHANGED <<noonLists, nawyLists, scrollVars, sinkVars, aloneVars>>

\* requests.get raises (network error)
RequestsGetRaises ==
    /\ script \in HttpPaginated
    /\ \E p \in Pages :
        /\ AtPage(p)
        /\ log' = log \o <<Call("requests.get", p)>>
        /\ site' = [site EXCEPT ![p] = [kind |-> "network_error", dom |-> <<>>]]
        /\ branch' = [branch EXCEPT ![p] = "uncaught"]
        /\ stdout' = Append(stdout, "traceback")
        /\ Leave(OnError(script), p)
    /\ UNCHANGED <<script, browser>>
    /\ UNCHANGED <<noonLists, nawyLists, scrollVars, sinkVars, aloneVars>>

\* the calls of one successful fetch
FetchCalls(s, p) ==
    IF s \in BrowserPaginated
    THEN <<Call("goto", p), Call("wait_for_selector", p), Call("content", p)>>
    ELSE <<Call("requests.get", p)>>

\* the answers a fetch that does not raise may bring: the rendered page, or
\* (HTTP scripts, whose status code is printed and not checked) an error
\* response without product boxes
Answers(s) ==
    {[kind |-> "html", dom |-> d] : d \in PageDoms}
    \cup IF s \in HttpPaginated THEN {[kind |-> "http_error", dom |-> <<>>]} ELSE {}

\* "if not products"
NoProductsFound ==
    /\ script \in Paginated
    /\ \E p \in Pages, a \in Answers(script) :
        /\ AtPage(p)
        /\ FindProducts(script, a.dom) = <<>>
        /\ log' = log \o FetchCalls(script, p)
        /\ site' = [site EXCEPT ![p] = a]
        /\ branch' = [branch EXCEPT ![p] = "empty"]
        /\ stdout' = Append(stdout, "no_products")
        /\ Leave(OnEmpty(script), p)
    /\ UNCHANGED <<script, browser>>
    /\ UNCHANGED <<noonLists, nawyLists, scrollVars, sinkVars, aloneVars>>

\* "for product in products" on a page with containers
ScrapePage ==
    /\ script \in Paginated
    /\ \E p \in Pages, a \in Answers(script) :
        LET products == FindProducts(script, a.dom)
            r == ExtractProducts(script, Listing, products)
        IN  /\ AtPage(p)
            /\ products # <<>>
            /\ Len(titles) + Len(a.dom) <= MaxRows
            /\ log' = log \o FetchCalls(script, p)
            /\ site' = [site EXCEPT ![p] = a]
            /\ SetListing(r.cols)
            /\ IF r.raised
               THEN /\ branch' = [branch EXCEPT ![p] =
                           IF OnError(script) = "continue" THEN "except" ELSE "uncaught"]
                    /\ stdout' = Append(stdout,
                           IF OnError(script) = "continue" THEN "page_error" ELSE "traceback")
                    /\ Leave(OnError(script), p)
               ELSE /\ branch' = [branch EXCEPT ![p] = "scraped"]
                    /\ stdout' = Append(stdout, "scraped")
                    /\ pc' = "sleep"
                    /\ current_page' = p
    /\ UNCHANGED <<script, browser>>
    /\ UNCHANGED <<nawyLists, scrollVars, sinkVars, aloneVars>>

\* SleepCalls of a loop body that does not pause
SleepCallsNone(p) == <<>>

\* the one time.sleep call that ends the loop body of page p
SleepCalls(p) == <<Call("sleep", p)>>

\* time.sleep at the end of the loop body
Sleep ==
    /\ pc = "sleep"
    /\ log' = log \o SleepCalls(current_page)
    /\ Leave("next", current_page)
    /\ UNCHANGED <<script, site, branch, browser, stdout>>
    /\ UNCHANGED <<noonLists, nawyLists, scrollVars, sinkVars, aloneVars>>

\* browser.close() after the loop
CloseBrowser ==
    /\ pc = "close"
    /\ browser' = "closed"
    /\ pc' = "dataframe"
    /\ UNCHANGED <<script, current_page, site, branch, log, stdout>>
    /\ UNCHANGED <<noonLists, nawyLists, scrollVars, sinkVars, aloneVars>>

-----------------------------------------------------------------------------
(* The infinite-scroll scripts: scraper_v1, scrape_nawy_properties *)

\* WithExit of a script that started Playwright without the with statement
WithExitLeak(b) == b

\* an exception leaves "with sync_playwright() as p": its __exit__ stops
\* Playwright, and the driver takes the browsers it launched down with it
WithExit(b) == IF b = "open" THEN "closed" ELSE b

\* the initial requests.get(url), whose response is not used
InitialGet ==
    /\ pc = "start"
    /\ script \in InfiniteScroll
    /\ log' = Append(log, Call("requests.get", 0))
    /\ pc' = "launch"
    /\ UNCHANGED <<script, current_page, site, branch, browser, stdout>>
    /\ UNCHANGED <<noonLists, nawyLists, scrollVars, sinkVars, aloneVars>>

InitialGetRaises ==
    /\ pc = "start"
    /\ script \in InfiniteScroll
    /\ log' = Append(log, Call("requests.get", 0))
    /\ stdout' = Append(stdout, "traceback")
    /\ pc' = "crashed"
    /\ UNCHANGED <<script, current_page, site, branch, browser>>
    /\ UNCHANGED <<noonLists, nawyLists, scrollVars, sinkVars, aloneVars>>

LaunchScrollBrowser ==
    /\ pc = "launch"
    /\ browser' = "open"
    /\ pc' = "goto"
    /\ UNCHANGED <<script, current_page, site, branch, log, stdout>>
    /\ UNCHANGED <<noonLists, nawyLists, scrollVars, sinkVars, aloneVars>>

\* page.goto(url); the page comes with some property cards already rendered
Goto ==
    /\ pc = "goto"
    /\ log' = Append(log, Call("goto", 0))
    /\ \E n \in 0..MaxContainers :
        /\ loaded' = n
        /\ prev_loaded' = n
    /\ pc' = "wait"
    /\ UNCHANGED <<script, current_page, site, branch, browser, stdout>>
    /\ UNCHANGED <<noonLists, nawyLists, scroll_count, scroll_i, sinkVars, aloneVars>>

ScrollGotoRaises ==
    /\ pc = "goto"
    /\ log' = Append(log, Call("goto", 0))
    /\ stdout' = Append(stdout, "traceback")
    /\ pc' = "crashed"
    /\ browser' = WithExit(browser)
    /\ UNCHANGED <<script, current_page, site, branch>>
    /\ UNCHANGED <<noonLists, nawyLists, scrollVars, sinkVars, aloneVars>>

\* page.wait_for_selector(container_selector)
WaitForSelector ==
    /\ pc = "wait"
    /\ log' = Append(log, Call("wait_for_selector", 0))
    /\ pc' = "scroll"
    /\ UNCHANGED <<script, current_page, site, branch, browser, stdout>>
    /\ UNCHANGED <<noonLists, nawyLists, scrollVars, sinkVars, aloneVars>>

ScrollWaitForSelectorRaises ==
    /\ pc = "wait"
    /\ log' = Append(log, Call("wait_for_selector", 0))
    /\ stdout' = Append(stdout, "traceback")
    /\ pc' = "crashed"
    /\ browser' = WithExit(browser)
    /\ UNCHANGED <<script, current_page, site, branch>>
    /\ UNCHANGED <<noonLists, nawyLists, scrollVars, sinkVars, aloneVars>>

\* ScrollAgain that stops once a scroll brings no new card
ScrollAgainUntilNoNew(i, n, grew) == i < n /\ (i = 0 \/ grew)

\* "for _ in range(scroll_count)": whether another iteration runs, after i
\* iterations, the last of which did or did not bring new cards
ScrollAgain(i, n, grew) == i < n

\* page.evaluate(scrollBy): new cards may or may not appear
Scroll ==
    /\ pc = "scroll"
    /\ ScrollAgain(scroll_i, scroll_count, loaded > prev_loaded)
    /\ log' = Append(log, Call("scroll", 0))
    /\ prev_loaded' = loaded
    /\ \E n \in loaded..MaxContainers : loaded' = n
    /\ pc' = "scroll_wait"
    /\ UNCHANGED <<script, current_page, site, branch, browser, stdout>>
    /\ UNCHANGED <<noonLists, nawyLists, scroll_count, scroll_i, sinkVars, aloneVars>>

\* time.sleep(scroll_wait)
ScrollWait ==
    /\ pc = "scroll_wait"
    /\ log' = Append(log, Call("sleep", 0))
    /\ scroll_i' = scroll_i + 1
    /\ pc' = "scroll"
    /\ UNCHANGED <<script, current_page, site, branch, browser, stdout>>
    /\ UNCHANGED <<noonLists, nawyLists, scroll_count, loaded, prev_loaded,
                   sinkVars, aloneVars>>

\* page.content(), find_all and "for property in Properties"
Snapshot ==
    /\ pc = "scroll"
    /\ ~ScrollAgain(scroll_i, scroll_count, loaded > prev_loaded)
    /\ log' = Append(log, Call("content", 0))
    /\ \E Properties \in [1..loaded -> PageCards] :
        SetPropertyLists(ExtractProperties(EmptyProperty, Properties))
    /\ pc' = "close"
    /\ UNCHANGED <<script, current_page, site, branch, browser, stdout>>
    /\ UNCHANGED <<noonLists, scrollVars, sinkVars, aloneVars>>

-----------------------------------------------------------------------------
(* DataFrame and CSV *)

Lengths(cols) == {Len(cols[k]) : k \in DOMAIN cols}

Columns == IF script \in Paginated THEN Listing ELSE PropertyLists

\* the rows of pd.DataFrame({...}) in the column order of the dict
Rows(s, cols) ==
    IF s \in Paginated
    THEN [i \in 1..Len(cols.titles) |->
            [Product_name |-> cols.titles[i], Rating |-> cols.ratings[i],
             Price |-> cols.prices[i], Product_link |-> cols.product_links[i],
             Image_link |-> cols.image_links[i]]]
    ELSE [i \in 1..Len(cols.location_list) |->
            [Location |-> cols.location_list[i], Name |-> cols.name_list[i],
             Description |-> cols.description_list[i], Area |-> cols.area_list[i],
             Beds |-> cols.bed_list[i], Baths |-> cols.bath_list[i],
             Price |-> cols.price_list[i]]]

\* what follows the DataFrame: rejected_noon ends, simple_noon and scraper_v2
\* call os.makedirs, noon_laptop and scraper_v1 write at once
AfterDataFrame(s) ==
    IF s = "rejected_noon" THEN "done"
    ELSE IF s \in {"simple_noon", "scraper_v2"} THEN "makedirs"
    ELSE "to_csv"

\* pd.DataFrame raises ValueError on columns of different lengths
CreateDataFrame ==
    /\ pc = "dataframe"
    /\ IF Cardinality(Lengths(Columns)) = 1
       THEN /\ df' = Some(Rows(script, Columns))
            /\ stdout' = Append(stdout, "shape")
            /\ pc' = AfterDataFrame(script)
       ELSE /\ df' = df
            /\ stdout' = Append(stdout, "traceback")
            /\ pc' = "crashed"
    /\ UNCHANGED <<script, current_page, site, branch, log, browser>>
    /\ UNCHANGED <<noonLists, nawyLists, scrollVars, csv_file, parent_dir, aloneVars>>

\* os.makedirs(output_dir, exist_ok=True)
MakeDirs ==
    /\ pc = "makedirs"
    /\ parent_dir' = "ensured"
    /\ pc' = "to_csv"
    /\ UNCHANGED <<script, current_page, site, branch, log, browser, stdout>>
    /\ UNCHANGED <<noonLists, nawyLists, scrollVars, df, csv_file, aloneVars>>

\* what a script prints after a successful df.to_csv: scraper_v1 ends on
\* the to_csv call and prints nothing
SuccessPrint(s) == IF s = "scraper_v1" THEN <<>> ELSE <<"saved">>

\* df.to_csv writes the file
ToCsv ==
    /\ pc = "to_csv"
    /\ csv_file' = df
    /\ stdout' = stdout \o SuccessPrint(script)
    /\ pc' = "done"
    /\ UNCHANGED <<script, current_page, site, branch, log, browser>>
    /\ UNCHANGED <<noonLists, nawyLists, scrollVars, df, parent_dir, aloneVars>>

\* ToCsvExcept of a script whose success message is printed after the
\* try/except instead of inside the try
ToCsvExceptSaved(s) ==
    IF s \in BrowserPaginated
    THEN [print |-> <<"save_error", "saved">>, pc |-> "done"]
    ELSE [print |-> <<"traceback">>, pc |-> "crashed"]

\* what follows an exception of df.to_csv: noon_laptop catches it and prints
\* the error, the other scripts let it end the run with a traceback
ToCsvExcept(s) ==
    IF s \in BrowserPaginated
    THEN [print |-> <<"save_error">>, pc |-> "done"]
    ELSE [print |-> <<"traceback">>, pc |-> "crashed"]

\* df.to_csv raises (missing directory, permission, disk)
ToCsvRaises ==
    /\ pc = "to_csv"
    /\ stdout' = stdout \o ToCsvExcept(script).print
    /\ pc' = ToCsvExcept(script).pc
    /\ UNCHANGED <<script, current_page, site, branch, log, browser>>
    /\ UNCHANGED <<noonLists, nawyLists, scrollVars, sinkVars, aloneVars>>

-----------------------------------------------------------------------------

Next ==
    \/ LaunchBrowser
    \/ StartLoop
    \/ GotoRaises
    \/ WaitForSelectorRaises
    \/ RequestsGetRaises
    \/ NoProductsFound
    \/ ScrapePage
    \/ Sleep
    \/ CloseBrowser
    \/ InitialGet
    \/ InitialGetRaises
    \/ LaunchScrollBrowser
    \/ Goto
    \/ ScrollGotoRaises
    \/ WaitForSelector
    \/ ScrollWaitForSelectorRaises
    \/ Scroll
    \/ ScrollWait
    \/ Snapshot
    \/ CreateDataFrame
    \/ MakeDirs
    \/ ToCsv
    \/ ToCsvRaises

Spec == Init /\ [][Next]_vars

-----------------------------------------------------------------------------
(* The per-container extraction alone, on every shape of container *)

InitExtract ==
    /\ script \in Scripts
    /\ scroll_count = 0
    /\ InitRun
    /\ parent_dir = "unchecked"
    /\ IF script \in Paginated
       THEN /\ product \in AllProducts
            /\ FindProducts(script, <<product>>) # <<>>
            /\ property = NoProperty
       ELSE /\ product = NoProduct
            /\ property \in AllProperties

\* one iteration of "for product in products" on the lists still empty
ExtractOneProduct ==
    /\ pc = "start"
    /\ script \in Paginated
    /\ LET r == ExtractProduct(script, Listing, product)
       IN  /\ SetListing(r.cols)
           /\ pc' = IF r.raised THEN "raised" ELSE "extracted"
    /\ UNCHANGED <<script, current_page, site, branch, log, browser, stdout>>
    /\ UNCHANGED <<nawyLists, scrollVars, sinkVars, aloneVars>>

\* one iteration of "for property in Properties" on the lists still empty
ExtractOneProperty ==
    /\ pc = "start"
    /\ script \in InfiniteScroll
    /\ SetPropertyLists(ExtractProperty(PropertyLists, property))
    /\ pc' = "extracted"
    /\ UNCHANGED <<script, current_page, site, branch, log, browser, stdout>>
    /\ UNCHANGED <<noonLists, scrollVars, sinkVars, aloneVars>>

NextExtract == ExtractOneProduct \/ ExtractOneProperty

SpecExtract == InitExtract /\ [][NextExtract]_vars

-----------------------------------------------------------------------------
(* stream_invoice.py: one run of the script per click, in each session *)

InitDocs ==
    /\ script = "stream_invoice"
    /\ scroll_count = 0
    /\ InitRun
    /\ parent_dir = "unchecked"
    /\ product = NoProduct
    /\ property = NoProperty

RECURSIVE RunsOf(_)
RunsOf(ss) ==
    IF ss = {} THEN 0
    ELSE LET s == CHOOSE x \in ss : TRUE
         IN  session[s].runs + RunsOf(ss \ {s})

TotalRuns == RunsOf(Sessions)

\* the session s goes on as the record r
Becomes(s, r) == session' = [session EXCEPT ![s] = r]

\* st.error / st.warning / st.success: the outcome message m is put on the page
Show(r, m) == [r EXCEPT !.shown = Append(@, m)]

\* the run ends: the page stays as it is until the next interaction
EndRun(r) == [r EXCEPT !.pc = "idle"]

\* a file is in the uploader and "Extract Information" is clicked: the
\* script reruns from the top on an empty page
Click(s) ==
    /\ session[s].pc = "idle"
    /\ TotalRuns < MaxRuns
    /\ \E f \in Uploads :
          Becomes(s, [IdleSession EXCEPT !.pc = "extract",
                                         !.runs = session[s].runs + 1,
                                         !.uploaded_file = Some(f)])
    /\ UNCHANGED <<scraperVars, collections>>

\* extracted_text = extract_text_from_file(uploaded_file); if extracted_text:
ExtractText(s) ==
    /\ session[s].pc = "extract"
    /\ LET text == ExtractTextFromFile(Val(session[s].uploaded_file))
           r == [session[s] EXCEPT !.extracted_text = text]
       IN  IF text = None THEN Becomes(s, EndRun(Show(r, "error_extracting")))
           ELSE IF Truthy(text) THEN Becomes(s, [r EXCEPT !.pc = "classify"])
           ELSE Becomes(s, EndRun(r))
    /\ UNCHANGED <<scraperVars, collections>>

\* doc_type = detect_document_type(extracted_text)
Classify(s) ==
    /\ session[s].pc = "classify"
    /\ \E a \in ClassificationAnswers :
          LET r == [session[s] EXCEPT !.response = Some(a),
                                      !.doc_type = Some(DetectDocumentType(a)),
                                      !.pc = "process"]
          IN  Becomes(s, IF a.raised THEN Show(r, "classify_warning") ELSE r)
    /\ UNCHANGED <<scraperVars, collections>>

\* llm.invoke(message), json.loads(result), embedding_model.encode(...)
\* and the except clauses that any of them can reach
Process(s) ==
    /\ session[s].pc = "process"
    /\ \E a \in ExtractionAnswers, encodes \in BOOLEAN :
          LET r == [session[s] EXCEPT !.response = None]
              json_data == JsonLoads(Unfence(a.content))
          IN  IF a.raised THEN Becomes(s, EndRun(Show(r, "error_processing")))
              ELSE IF json_data = None
                   THEN Becomes(s, EndRun(Show(r, "error_invalid_json")))
              ELSE IF ~encodes
                   THEN Becomes(s, EndRun(Show([r EXCEPT !.json_data = json_data],
                                               "error_processing")))
              ELSE Becomes(s, [r EXCEPT !.json_data = json_data,
                                        !.embedding_vector =
                                            Some(Encode(Val(r.extracted_text))),
                                        !.pc = "find_one"])
    /\ UNCHANGED <<scraperVars, collections>>

\* collection = collections[doc_type]; existing_doc = collection.find_one(...)
FindExisting(s) ==
    /\ session[s].pc = "find_one"
    /\ LET r == session[s]
           doc_type == Val(r.doc_type)
       IN  IF doc_type \notin DOMAIN collections
           THEN Becomes(s, EndRun(Show(r, "error_processing")))
           ELSE Becomes(s, [r EXCEPT !.existing_doc =
                                        FindOne(collections[doc_type],
                                                Val(r.uploaded_file).name,
                                                Val(r.extracted_text)),
                                     !.pc = "found"])
    /\ UNCHANGED <<scraperVars, collections>>

\* if existing_doc: st.warning(... already exists ...)
WarnExisting(s) ==
    /\ session[s].pc = "found"
    /\ session[s].existing_doc # None
    /\ Becomes(s, EndRun(Show(session[s], "warning_exists")))
    /\ UNCHANGED <<scraperVars, collections>>

\* the document insert_one is called with
Document(r) ==
    [file_name |-> Val(r.uploaded_file).name,
     document_type |-> Val(r.doc_type),
     extracted_text |-> Val(r.extracted_text),
     document_data |-> Val(r.json_data),
     embedding |-> Val(r.embedding_vector)]

\* else: collection.insert_one({...}); st.success(... Saved to MongoDB ...)
InsertOne(s) ==
    /\ session[s].pc = "found"
    /\ session[s].existing_doc = None
    /\ collections' = [collections EXCEPT ![Val(session[s].doc_type)] =
                          Append(@, Document(session[s]))]
    /\ Becomes(s, EndRun(Show(session[s], "success_saved")))
    /\ UNCHANGED scraperVars

NextDocs ==
    \E s \in Sessions :
        \/ Click(s)
        \/ ExtractText(s)
        \/ Classify(s)
        \/ Process(s)
        \/ FindExisting(s)
        \/ WarnExisting(s)
        \/ InsertOne(s)

SpecDocs == InitDocs /\ [][NextDocs]_vars

-----------------------------------------------------------------------------
(* Helpers of the properties *)

IsPrefix(a, b) == Len(a) <= Len(b) /\ SubSeq(b, 1, Len(a)) = a

Upto(k) == [i \in 1..k |-> i]

CallsOf(op) == SelectSeq(log, LAMBDA c : c.op = op)

PagesOf(op) == [i \in 1..Len(CallsOf(op)) |-> CallsOf(op)[i].page]

FetchOp == IF script \in BrowserPaginated THEN "goto" ELSE "requests.get"

TimesFetched(p) == Len(SelectSeq(log, LAMBDA c : c.op = FetchOp /\ c.page = p))

ConcatListing(a, b) ==
    [titles |-> a.titles \o b.titles, prices |-> a.prices \o b.prices,
     ratings |-> a.ratings \o b.ratings,
     product_links |-> a.product_links \o b.product_links,
     image_links |-> a.image_links \o b.image_links]

\* the one-row lists of one container
RecordOf(p) == ExtractProduct(script, EmptyListing, p).cols

\* the records of a sequence of containers, in DOM order
RECURSIVE RecordsOf(_)
RecordsOf(products) ==
    IF products = <<>> THEN EmptyListing
    ELSE ConcatListing(RecordOf(Head(products)), RecordsOf(Tail(products)))

Containers(p) == FindProducts(script, site[p].dom)

\* the records of the pages of ps among 1..p, in page order
RECURSIVE RecordsOfPages(_, _)
RecordsOfPages(p, ps) ==
    IF p < FirstPage THEN EmptyListing
    ELSE IF p \in ps
         THEN ConcatListing(RecordsOfPages(p - 1, ps), RecordsOf(Containers(p)))
         ELSE RecordsOfPages(p - 1, ps)

RECURSIVE SumContainers(_, _)
SumContainers(p, ps) ==
    IF p < FirstPage THEN 0
    ELSE SumContainers(p - 1, ps) + IF p \in ps THEN Len(Containers(p)) ELSE 0

\* the pages that were served with at least one container
NonEmptyPages == {p \in Pages : site[p].kind = "html" /\ Containers(p) # <<>>}

\* the pages that were served without any container
EmptyPages == {p \in Pages : site[p].kind \in {"html", "http_error"}
                             /\ Containers(p) = <<>>}

\* the pages whose fetch failed transiently
TransientKinds == {"goto_error", "selector_timeout", "network_error"}

LoopLeft == pc \notin {"start", "page_loop", "sleep"}

-----------------------------------------------------------------------------
(* C1 *)

\* C1: in noon_laptop (skip-empty mode) the pages are fetched in the order
\* 1, 2, ... each exactly once; an empty page adds no record and does not end
\* the loop; once the loop is left all of 1..5 were fetched and the lists hold
\* the records of exactly the pages served with containers, so the row count
\* is the sum of their container counts.
SkipEmptyVisitsEveryPage ==
    script \in BrowserPaginated =>
        /\ PagesOf("goto") = Upto(Len(CallsOf("goto")))
        /\ \A p \in EmptyPages : ~LoopLeft => current_page > p
        /\ LoopLeft =>
            /\ pc # "crashed"
            /\ PagesOf("goto") = Upto(LastPage)
            /\ Listing = RecordsOfPages(LastPage, NonEmptyPages)
            /\ Len(titles) = SumContainers(LastPage, NonEmptyPages)

SkipEmptyWitness ==
    /\ script = "noon_laptop"
    /\ pc = "done"
    /\ EmptyPages = {3}
    /\ NonEmptyPages = {1, 2, 4, 5}
    /\ Len(titles) = 4
    /\ csv_file # None

-----------------------------------------------------------------------------
(* C2 *)

\* C2: in simple_noon and rejected_noon (stop-on-first-empty mode), once
\* page k was served without containers the loop is left, the pages fetched
\* are exactly 1..k in order, and the lists hold exactly the records of
\* pages 1..k-1.
StopOnFirstEmpty ==
    script \in HttpPaginated =>
        \A k \in EmptyPages :
            /\ LoopLeft
            /\ PagesOf("requests.get") = Upto(k)
            /\ \A j \in 1..(k - 1) : j \in NonEmptyPages
            /\ Listing = RecordsOfPages(k - 1, 1..(k - 1))

StopOnFirstEmptyWitness ==
    /\ script = "simple_noon"
    /\ pc = "done"
    /\ 2 \in EmptyPages
    /\ Len(Containers(1)) = 2
    /\ Len(titles) = 2
    /\ Len(log) = 3

-----------------------------------------------------------------------------
(* C3 *)

\* C3: in every paginated script a page whose fetch failed transiently was
\* fetched exactly once, the run went on to the next page index, and the run
\* was not aborted.
TransientFailureNeverFatal ==
    script \in Paginated =>
        \A p \in Pages :
            site[p].kind \in TransientKinds =>
                /\ pc # "crashed"
                /\ TimesFetched(p) = 1
                /\ current_page > p

-----------------------------------------------------------------------------
(* C4 *)

RECURSIVE ScrollCalls(_)
ScrollCalls(n) ==
    IF n = 0 THEN <<>>
    ELSE <<Call("scroll", 0), Call("sleep", 0)>> \o ScrollCalls(n - 1)

ExpectedCalls(n) ==
    <<Call("requests.get", 0), Call("goto", 0), Call("wait_for_selector", 0)>>
    \o ScrollCalls(n) \o <<Call("content", 0)>>

\* C4: with scroll_count = n the calls issued are, in this order, one
\* navigation, n times (scroll, wait), one snapshot, whatever each scroll
\* brought: at any time the calls so far are a prefix of that sequence, and
\* once a snapshot was taken they are the whole of it.
FixedScrollIterations ==
    script \in InfiniteScroll =>
        /\ IsPrefix(log, ExpectedCalls(scroll_count))
        /\ CallsOf("content") # <<>> => log = ExpectedCalls(scroll_count)

FixedScrollWitness ==
    /\ script = "scraper_v2"
    /\ scroll_count = MaxScrollCount
    /\ scroll_count >= 2
    /\ pc = "close"
    /\ loaded = 1
    /\ prev_loaded = 1
    /\ Len(CallsOf("scroll")) = scroll_count

-----------------------------------------------------------------------------
(* C5 *)

\* C5: all per-field lists have the same length at every page boundary and
\* at the end of the run, also after an error inside the extraction of a
\* page, and that length is the number of containers of the pages extracted.
RecordAndFieldCount ==
    /\ Cardinality(Lengths(Columns)) = 1
    /\ script \in Paginated =>
        Len(titles) = SumContainers(LastPage, {p \in Pages : branch[p] = "scraped"})

-----------------------------------------------------------------------------
(* C6 *)

ListingSentinels ==
    LET rating == IF script \in BrowserPaginated THEN product.rating_span
                  ELSE product.rating_div
        img == product.img
    IN  /\ product.title = None => titles = <<NA>>
        /\ product.price = None => prices = <<NA>>
        /\ rating = None => ratings = <<NA>>
        /\ (product.link = None \/ Val(product.link).href = None)
              => product_links = <<NA>>
        /\ (img = None \/ (Val(img).src = None /\ Val(img).data_src = None))
              => image_links = <<NA>>
        /\ Lengths(Listing) = {1}

PropertySentinels ==
    /\ property.location = None => location_list = <<Empty>>
    /\ property.name = None => name_list = <<Empty>>
    /\ property.description = None => description_list = <<Empty>>
    /\ property.price = None => price_list = <<Empty>>
    /\ property.blocks = <<>> =>
          area_list = <<Empty>> /\ bed_list = <<Empty>> /\ bath_list = <<Empty>>
    /\ Lengths(PropertyLists) = {1}

\* C6: in every script the extraction of a container never raises, appends
\* every field, and gives a field whose element or attribute is missing the
\* sentinel of the schema.
TotalFieldCoverage ==
    pc # "start" =>
        /\ pc = "extracted"
        /\ IF script \in Paginated THEN ListingSentinels ELSE PropertySentinels

-----------------------------------------------------------------------------
(* C7 *)

\* the lists hold the records of the pages extracted, in page order
AccumulatedInOrder ==
    (script \in Paginated /\ pc # "crashed") =>
        Listing = RecordsOfPages(LastPage, {p \in Pages : branch[p] = "scraped"})

\* a step only extends each list at its end
OnlyAppended ==
    /\ IsPrefix(titles, titles')
    /\ IsPrefix(prices, prices')
    /\ IsPrefix(ratings, ratings')
    /\ IsPrefix(product_links, product_links')
    /\ IsPrefix(image_links, image_links')

\* C7: the lists are at every page boundary the concatenation, in page order
\* and then DOM order, of the records of the pages extracted, duplicates
\* kept, and every step only extends each list at its end, leaving the
\* records accumulated earlier as they were.
AccumulationOrder == []AccumulatedInOrder /\ [][OnlyAppended]_vars

AccumulationWitness ==
    /\ script \in Paginated
    /\ pc = "done"
    /\ site[1].dom = <<LazyBox, FullBox>>
    /\ site[2].dom = <<FullBox>>
    /\ Len(titles) = 3
    /\ titles[2] = titles[3] /\ product_links[2] = product_links[3]
    /\ image_links[2] = image_links[3]
    /\ titles[1] # titles[2]

-----------------------------------------------------------------------------
(* C8 *)

\* C8: in every paginated script the loop takes the empty-page branch exactly
\* for the pages served without containers and the failure path (page
\* skipped, run continues) exactly for the pages whose fetch failed.
EmptyAndFailureTakenApart ==
    script \in Paginated =>
        \A p \in Pages :
            site[p].kind # "pending" =>
                /\ branch[p] = "empty" <=>
                      (site[p].kind = "html" /\ Containers(p) = <<>>)
                /\ branch[p] = "except" <=>
                      site[p].kind \in TransientKinds \cup {"http_error"}

-----------------------------------------------------------------------------
(* C9 *)

IsRelativePath(h) == h # <<>> /\ Head(h) = "/"

\* C9: a link element with a relative path gives the origin followed by the
\* path, a container without link element or without href gives "N/A", and
\* the link field is always "N/A" or starts with the origin.
LinkResolutionTotality ==
    (script \in Paginated /\ pc # "start") =>
        LET link == product.link
            out == product_links[1]
        IN  /\ Len(product_links) = 1
            /\ (link # None /\ Val(link).href # None
                  /\ IsRelativePath(Val(Val(link).href)))
                  => out = Origin \o Val(Val(link).href)
            /\ (link = None \/ Val(link).href = None) => out = NA
            /\ out = NA \/ StartsWith(out, Origin)

LinkResolutionWitness ==
    /\ script = "noon_laptop"
    /\ pc = "extracted"
    /\ product.link # None
    /\ Val(product.link).href = Some(<<"/", "p/1">>)
    /\ product_links = << <<"https://www.noon.com", "/", "p/1">> >>

-----------------------------------------------------------------------------
(* C10 *)

\* C10: in every listing script the image field is src when src is set,
\* else data-src when data-src is set, else "N/A"; the extraction of the
\* image never raises.
ImageFallback ==
    (script \in Paginated /\ pc # "start") =>
        LET img == product.img
        IN  /\ pc = "extracted"
            /\ (img # None /\ Truthy(Val(img).src))
                  => image_links = <<Val(Val(img).src)>>
            /\ (img # None /\ Val(img).src = None /\ Truthy(Val(img).data_src))
                  => image_links = <<Val(Val(img).data_src)>>
            /\ (img = None \/ (Val(img).src = None /\ Val(img).data_src = None))
                  => image_links = <<NA>>

-----------------------------------------------------------------------------
(* C11 *)

Ended == pc \in {"done", "crashed"}

\* C11: in the browser-based scripts (noon_laptop, scraper_v1, scraper_v2)
\* no run ends with the browser it launched still open, whether it ends
\* normally or in an error of the navigation or of the readiness wait.
BrowserReleased ==
    (script \in BrowserPaginated \cup InfiniteScroll /\ Ended) => browser # "open"

BrowserReleasedWitness ==
    /\ script = "scraper_v2"
    /\ pc = "crashed"
    /\ Len(CallsOf("wait_for_selector")) = 1
    /\ CallsOf("scroll") = <<>>
    /\ browser = "closed"

-----------------------------------------------------------------------------
(* C12 *)

Printed(m) == \E i \in 1..Len(stdout) : stdout[i] = m
TimesPrinted(m) == Cardinality({i \in 1..Len(stdout) : stdout[i] = m})
LastPrinted == IF stdout = <<>> THEN None ELSE Some(stdout[Len(stdout)])

\* the run has ended, the DataFrame was built and no file was written
WriteFailed == Ended /\ script # "rejected_noon" /\ df # None /\ csv_file = None
WriteSucceeded == csv_file # None

SinkReport ==
    /\ df # None => df = Some(Rows(script, Columns))
    /\ WriteFailed =>
          /\ LastPrinted \in {Some("save_error"), Some("traceback")}
          /\ ~Printed("saved")
    /\ WriteSucceeded =>
          /\ csv_file = df
          /\ ~Printed("save_error") /\ ~Printed("traceback")
          /\ script # "scraper_v1" =>
                LastPrinted = Some("saved") /\ TimesPrinted("saved") = 1

WriteKeepsRecords ==
    pc = "to_csv" => UNCHANGED <<noonLists, nawyLists, df>>

-----------------------------------------------------------------------------
(* C13 *)

\* the exit status of a run that ended: an uncaught exception ends the
\* interpreter with status 1, falling off the end of the script with 0
ExitStatus == IF pc = "crashed" THEN 1 ELSE 0

FatalFailureExitsNonZero ==
    WriteFailed =>
        /\ ExitStatus # 0
        /\ LastPrinted \in {Some("save_error"), Some("traceback")}

PageFailureNeverAborts ==
    (script \in Paginated /\ Ended /\ ~WriteFailed) =>
        /\ ExitStatus = 0
        /\ script # "rejected_noon" => (df # None /\ csv_file = df)

\* C13: a run whose CSV write failed printed an error and ended with a
\* non-zero exit status; a paginated run whose write did not fail, whatever
\* its pages did, ended with exit status zero and its output written.
ProcessOutcome == FatalFailureExitsNonZero /\ PageFailureNeverAborts

-----------------------------------------------------------------------------
(* C14 *)

\* C14: in every script that writes a CSV the write step is only reached
\* with the parent directory of the output path ensured by os.makedirs.
ParentEnsuredBeforeWrite ==
    pc = "to_csv" => parent_dir = "ensured"

-----------------------------------------------------------------------------
(* C15 *)

\* the fetches and the pauses of the run, in the order they were made
PauseLog == SelectSeq(log, LAMBDA c : c.op \in {FetchOp, "sleep"})

\* the entries of PauseLog before its fetch at position i read: the earlier
\* fetch, and one pause exactly when the page of that fetch was extracted
PausedOnceAfterSuccess(pl, i) ==
    IF pl[i - 1].op = "sleep"
    THEN /\ i >= 3
         /\ pl[i - 2].op = FetchOp
         /\ branch[pl[i - 2].page] = "scraped"
    ELSE branch[pl[i - 1].page] # "scraped"

\* C15: in a paginated run, between two consecutive fetches there is exactly
\* one pause when the page of the earlier fetch was extracted successfully,
\* and no pause when that page failed or had no products.
PolitenessPause ==
    script \in Paginated =>
        LET pl == PauseLog
        IN  \A i \in 2..Len(pl) :
                (pl[i].op = FetchOp /\ \E j \in 1..(i - 1) : pl[j].op = FetchOp)
                    => PausedOnceAfterSuccess(pl, i)

PolitenessWitness ==
    /\ script = "noon_laptop"
    /\ branch[1] = "scraped"
    /\ branch[2] = "except"
    /\ branch[3] = "empty"
    /\ branch[4] = "scraped"
    /\ TimesFetched(5) = 1

-----------------------------------------------------------------------------
(* C16 *)

\* the sub-blocks of blocks that have a label and a value and whose label,
\* trimmed and lower-cased, reads known
MatchingBlocks(blocks, known) ==
    {i \in 1..Len(blocks) :
        /\ blocks[i].label # None
        /\ blocks[i].value # None
        /\ Lower(Strip(Text(Val(blocks[i].label)))) = <<known>>}

\* the trimmed value of the last matching sub-block, "" when there is none
FieldOfBlocks(blocks, known) ==
    LET m == MatchingBlocks(blocks, known)
    IN  IF m = {} THEN Empty
        ELSE LET last == CHOOSE i \in m : \A j \in m : j <= i
             IN  Strip(Text(Val(blocks[last].value)))

\* C16: the area, bedrooms and bathrooms of a property are the trimmed
\* values of the last sub-block having label and value whose trimmed,
\* lower-cased label is m2, beds and baths respectively, and the empty
\* string where no sub-block matches; no other sub-block has any effect.
FeatureMapping ==
    (script \in InfiniteScroll /\ pc = "extracted") =>
        /\ area_list = <<FieldOfBlocks(property.blocks, "m2")>>
        /\ bed_list = <<FieldOfBlocks(property.blocks, "beds")>>
        /\ bath_list = <<FieldOfBlocks(property.blocks, "baths")>>

FeatureMappingWitness ==
    /\ script = "scraper_v2"
    /\ pc = "extracted"
    /\ Len(property.blocks) = 2
    /\ MatchingBlocks(property.blocks, "m2") = {1, 2}
    /\ property.blocks[1].value # property.blocks[2].value
    /\ area_list = <<<<"120">>>>
    /\ bed_list = <<Empty>>

-----------------------------------------------------------------------------
(* C17 *)

\* the stored document the upload of session s matches now, if any
StoredMatch(s) ==
    FindOne(collections[Val(session[s].doc_type)],
            Val(session[s].uploaded_file).name, Val(session[s].extracted_text))

NoTwoAlike ==
    \A t \in DocTypes :
        \A i, j \in 1..Len(collections[t]) :
            i # j => /\ collections[t][i].file_name # collections[t][j].file_name
                     /\ collections[t][i].extracted_text # collections[t][j].extracted_text

MatchInsertsNothing ==
    \A s \in Sessions :
        (session[s].pc = "found" /\ StoredMatch(s) # None) =>
            session[s].existing_doc # None

\* C17: under every interleaving of the runs of the sessions no collection
\* holds two documents with the same file_name or the same extracted_text,
\* and a run about to store its upload while a stored document of its
\* collection matches it on either key takes the already-exists branch.
StoreUniqueness == NoTwoAlike /\ MatchInsertsNothing

-----------------------------------------------------------------------------
(* C18 *)

\* the type a classification answer stands for: invoice when the model call
\* raised, when the answer names invoice, and when it names no known type
TypeOfAnswer(a) ==
    LET word == Lower(Strip(a.content))
    IN  IF a.raised \/ Contains(word, "invoice") THEN {"invoice"}
        ELSE IF ~Contains(word, "purchase") /\ ~Contains(word, "order")
                /\ ~Contains(word, "approval") THEN {"invoice"}
        ELSE {"purchase_order", "approval"}

\* C18: whatever the model answers, and when the model call raises, the
\* detected type is one of invoice, purchase_order, approval (invoice when
\* the answer contains it and as the fallback), so it is a key of the
\* collections, and every stored document carries the type of the
\* collection it is stored in.
ClassificationTotal ==
    /\ \A s \in Sessions :
          /\ session[s].doc_type # None =>
                Val(session[s].doc_type) \in DocTypes \cap DOMAIN collections
          /\ session[s].pc = "process" =>
                Val(session[s].doc_type) \in TypeOfAnswer(Val(session[s].response))
    /\ \A t \in DOMAIN collections :
          \A i \in 1..Len(collections[t]) : collections[t][i].document_type = t

ClassificationWitness ==
    /\ collections["approval"] # <<>>
    /\ session["s2"].pc = "process"
    /\ Val(session["s2"].response) = LlmResponse(<<"receipt">>)
    /\ session["s2"].doc_type = Some("invoice")

-----------------------------------------------------------------------------
(* C19 *)

RunEnded(r) == r.pc = "idle" /\ r.runs > 0

\* the text extraction failed or gave no text, the reply was no valid JSON,
\* or the embedding raised
RunFailed(r) ==
    \/ ~Truthy(r.extracted_text)
    \/ r.json_data = None
    \/ r.embedding_vector = None

Shows(r, m) == \E i \in 1..Len(r.shown) : r.shown[i] = m

ErrorReported(r) ==
    \/ Shows(r, "error_extracting")
    \/ Shows(r, "error_invalid_json")
    \/ Shows(r, "error_processing")

FailedRunReported ==
    \A s \in Sessions :
        (RunEnded(session[s]) /\ RunFailed(session[s])) =>
            /\ ErrorReported(session[s])
            /\ ~Shows(session[s], "success_saved")

InsertOnlyAfterSuccess ==
    /\ \A s \in Sessions :
          (session[s].pc \in {"find_one", "found"} \/ Shows(session[s], "success_saved"))
              => ~RunFailed(session[s])
    /\ \A t \in DocTypes :
          \A i \in 1..Len(collections[t]) :
              /\ collections[t][i].extracted_text # <<>>
              /\ collections[t][i].document_data = "{}"
              /\ collections[t][i].embedding = Encode(collections[t][i].extracted_text)

\* C19: a run in which the text extraction failed or returned no text, the
\* structured reply was no valid JSON, or the embedding raised, has ended
\* with an error shown and no document saved; documents are stored only by
\* runs in which all three succeeded.
FailedUploadLeavesStore == FailedRunReported /\ InsertOnlyAfterSuccess

====
